---- MODULE Spec2Model ----
(***************************************************************************)
(* Detection loop controller of drowsiness_detection.py: the session       *)
(* object DrowsinessDetector, its QTimer, the pygame music channel, the    *)
(* capture handle and the two labels it writes.  One action per handler    *)
(* (start_detection, stop_detection, update_frame, closeEvent).            *)
(***************************************************************************)
EXTENDS Integers, Sequences, FiniteSets, TLC

\* ------------------------------------------------------------------ bounds
\* Number of handler invocations explored in one session.
MaxEvents == 6

\* ------------------------------------------------------- program constants
\* self.timer.start(30)
TimerPeriod == 30

\* Texts and style sheets written to status_label (decorative glyphs that
\* follow the words in the source strings are left out).
StatusPrompt == "Status: Click 'Start Detection'"
StatusStopped == "Status: Stopped"
StatusDrowsy == "Status: Drowsy!"
StatusAwake == "Status: Awake"
StyleNone == ""
StyleBlack == "color: black;"
StyleRed == "color: red; font-weight: bold;"
StyleGreen == "color: green; font-weight: bold;"

\* ------------------------------------------------------------------ labels
\* A label is a sequence of one-character strings.
UpperCase == <<"A","B","C","D","E","F","G","H","I","J","K","L","M",
               "N","O","P","Q","R","S","T","U","V","W","X","Y","Z">>
LowerCase == <<"a","b","c","d","e","f","g","h","i","j","k","l","m",
               "n","o","p","q","r","s","t","u","v","w","x","y","z">>

\* str.lower() on one character: an upper-case letter maps to the letter at
\* the same position of the lower-case alphabet, anything else to itself.
LowerChar(c) ==
    IF \E i \in 1..Len(UpperCase) : UpperCase[i] = c
    THEN LowerCase[CHOOSE i \in 1..Len(UpperCase) : UpperCase[i] = c]
    ELSE c

\* Variant: the label is compared as returned, without lower().
LowerOmitted(s) == s

\* str.lower()
Lower(s) == [i \in 1..Len(s) |-> LowerChar(s[i])]

\* The literal "drowsy" of the comparison in update_frame.
DrowsyLiteral == <<"d","r","o","w","s","y">>

\* label == "drowsy" on the lowered top-ranked label.
IsDrowsy(rawLabel) == Lower(rawLabel) = DrowsyLiteral

\* Top-ranked labels the classifier may return.
Labels ==
    { <<"D","r","o","w","s","y">>,
      <<"D","R","O","W","S","Y">>,
      <<"d","r","o","w","s","y">>,
      <<"A","w","a","k","e">>,
      <<"a","w","a","k","e">>,
      <<"n","o","t","_","d","r","o","w","s","y">>,
      <<>> }

\* ------------------------------------------------------------------ frames
\* A frame is a row of pixels; a pixel is its three bytes in memory order,
\* which for a frame from cv2.VideoCapture is blue, green, red.  One pixel is
\* enough to tell the channels apart.
Frames ==
    { << <<10, 20, 30>> >>,
      << <<30, 20, 10>> >> }

\* video_label before any setPixmap, and the classifier input before any
\* call: an image of no pixels.
NoPixmap == <<>>

\* An array of pixels whose three bytes are taken, in memory order, as red,
\* green, blue.
AsRGB(arr) ==
    [i \in 1..Len(arr) |-> [r |-> arr[i][1], g |-> arr[i][2], b |-> arr[i][3]]]

\* QImage(frame.data, ..., Format_RGB888) on the frame as read: the first
\* byte of a pixel (the device's blue) is shown as red and the third (the
\* device's red) as blue.
QImageOf(frame) == AsRGB(frame)

\* cv2.cvtColor(frame, cv2.COLOR_BGR2RGB): the first and third byte of every
\* pixel change places.
CvtColorBGR2RGB(frame) ==
    [i \in 1..Len(frame) |-> << frame[i][3], frame[i][2], frame[i][1] >>]

\* cv2.convertScaleAbs(src, alpha, beta): |alpha * x + beta| saturated to
\* eight bits.
SaturateU8(x) == IF x > 255 THEN 255 ELSE x
Abs(x) == IF x < 0 THEN 0 - x ELSE x
ConvertScaleAbs(src, alpha, beta) ==
    [i \in 1..Len(src) |->
        [c \in 1..3 |-> SaturateU8(Abs(alpha * src[i][c] + beta))]]

\* The classifier's input width.
ModelSize == 224

\* cv2.resize(src, (224, 224)): every target pixel takes the source pixel
\* at the matching position (for the one-pixel frames used here every
\* interpolation gives that pixel).
Resize(src, n) ==
    [i \in 1..n |-> src[(((i - 1) * Len(src)) \div n) + 1]]

\* Image.fromarray(resized_frame): the bytes are taken as red, green, blue.
FromArray(arr) == AsRGB(arr)

\* Lines 94-102: what update_frame hands to the classifier.
Preprocess(frame) ==
    FromArray(Resize(ConvertScaleAbs(CvtColorBGR2RGB(frame), 1, 0), ModelSize))

\* The classifier input of every frame the capture may deliver.
ClassifierInput == [f \in Frames |-> Preprocess(f)]

\* ------------------------------------------------------------------- state
VARIABLES
    detection_running,  \* self.detection_running
    drowsy_detected,    \* self.drowsy_detected
    timer_active,       \* self.timer.isActive()
    timer_interval,     \* self.timer.interval()
    music_playing,      \* pygame.mixer.music is playing (looped)
    cap_opened,         \* self.cap.isOpened()
    status_text,        \* self.status_label.text()
    status_style,       \* self.status_label.styleSheet()
    pixmap,             \* self.video_label.pixmap()
    window_visible,     \* self.isVisible()
    pil_image,          \* the image of the latest classifier call
    calls,              \* how often each collaborator call was made
    recent,             \* the last two handler invocations, oldest first
    script,             \* all invocations so far while they follow a scenario
    last_result,        \* <<label>> of the latest classified tick, else <<>>
    stop_since,         \* a stop command came after the latest classified tick
    nEvents             \* handler invocations so far

prog == <<detection_running, drowsy_detected, timer_active, timer_interval,
          music_playing, cap_opened, status_text, status_style, pixmap,
          window_visible>>

vars == <<detection_running, drowsy_detected, timer_active, timer_interval,
          music_playing, cap_opened, status_text, status_style, pixmap,
          window_visible, pil_image,
          calls, recent, script, last_result, stop_since, nEvents>>

\* ---------------------------------------------------------------- history
\* An invocation: the handler, what cap.read() returned to it ("none" when
\* it read nothing, "raised" when it returned a frame and the classifier call
\* then raised), and the raw label the classifier returned (<<>> when it
\* returned none).
Ev(op, read, label) == [op |-> op, read |-> read, label |-> label]

EvStart == Ev("start", "none", <<>>)
EvStop == Ev("stop", "none", <<>>)
EvClose == Ev("close", "none", <<>>)
EvTickIdle == Ev("tick", "none", <<>>)
EvTickFail == Ev("tick", "fail", <<>>)
EvTick(label) == Ev("tick", "ok", label)
EvTickRaised == Ev("tick", "raised", <<>>)

\* Section 8, property 3: labels drowsy, drowsy, awake, drowsy, then stop.
ScenarioSticky ==
    << EvStart,
       EvTick(<<"d","r","o","w","s","y">>),
       EvTick(<<"d","r","o","w","s","y">>),
       EvTick(<<"a","w","a","k","e">>),
       EvTick(<<"d","r","o","w","s","y">>),
       EvStop >>

\* Section 8, property 7: start, "Drowsy", "Awake", stop.
ScenarioSession ==
    << EvStart,
       EvTick(<<"D","r","o","w","s","y">>),
       EvTick(<<"A","w","a","k","e">>),
       EvStop >>

Scenarios == { ScenarioSticky, ScenarioSession }

\* The invocations so far follow no scenario.
OffScript == << Ev("off", "none", <<>>) >>

IsPrefix(s, t) == Len(s) <= Len(t) /\ SubSeq(t, 1, Len(s)) = s

Last(s) == s[Len(s)]

\* Bookkeeping common to every handler invocation.
Record(e) ==
    /\ nEvents < MaxEvents
    /\ nEvents' = nEvents + 1
    /\ recent' = IF Len(recent) < 2 THEN Append(recent, e)
                 ELSE << recent[2], e >>
    /\ script' = IF script # OffScript
                    /\ \E sc \in Scenarios : IsPrefix(Append(script, e), sc)
                 THEN Append(script, e)
                 ELSE OffScript
    /\ last_result' = IF e.op = "tick" /\ e.read = "ok" THEN << e.label >>
                      ELSE last_result
    /\ stop_since' = IF e.op = "tick" /\ e.read = "ok" THEN FALSE
                     ELSE IF e.op = "stop" THEN TRUE
                     ELSE stop_since

Count(name) == [calls EXCEPT ![name] = @ + 1]

NoCalls == [ timer_start |-> 0, timer_stop |-> 0, music_play |-> 0,
             music_stop |-> 0, cap_read |-> 0, cap_release |-> 0,
             pipe |-> 0 ]

\* -------------------------------------------------------------------- Init
\* DrowsinessDetector.__init__ and initUI.
Init ==
    /\ detection_running = FALSE
    /\ drowsy_detected = FALSE
    /\ timer_active = FALSE
    /\ timer_interval = 0
    /\ music_playing = FALSE
    /\ cap_opened = TRUE
    /\ status_text = StatusPrompt
    /\ status_style = StyleNone
    /\ pixmap = NoPixmap
    /\ window_visible = TRUE
    /\ pil_image = NoPixmap
    /\ calls = NoCalls
    /\ recent = << >>
    /\ script = << >>
    /\ last_result = << >>
    /\ stop_since = FALSE
    /\ nEvents = 0

\* ----------------------------------------------------------------- actions
\* The two buttons and the window's close control reach their handlers only
\* while the window is shown; the timer fires whether it is shown or not.

\* start_detection, not yet running: set the flag and start the timer.
StartFromIdle ==
    /\ window_visible
    /\ ~detection_running
    /\ Record(EvStart)
    /\ detection_running' = TRUE
    /\ timer_active' = TRUE
    /\ timer_interval' = TimerPeriod
    /\ calls' = Count("timer_start")
    /\ UNCHANGED <<drowsy_detected, music_playing, cap_opened, status_text,
                   status_style, pixmap>>
    /\ UNCHANGED pil_image
    /\ UNCHANGED window_visible

\* Variant: start_detection without the "if not running" test restarts the
\* timer.
StartWhileRunningRestarts ==
    /\ window_visible
    /\ detection_running
    /\ Record(EvStart)
    /\ timer_active' = TRUE
    /\ timer_interval' = TimerPeriod
    /\ calls' = Count("timer_start")
    /\ UNCHANGED <<detection_running, drowsy_detected, music_playing,
                   cap_opened, status_text, status_style, pixmap>>
    /\ UNCHANGED pil_image
    /\ UNCHANGED window_visible

\* start_detection, already running: nothing.
StartWhileRunning ==
    /\ window_visible
    /\ detection_running
    /\ Record(EvStart)
    /\ UNCHANGED <<prog, calls>>
    /\ UNCHANGED pil_image

start_detection == StartFromIdle \/ StartWhileRunning

\* Variant: stop_detection without its last line leaves the music playing.
StopKeepsMusic ==
    /\ window_visible
    /\ Record(EvStop)
    /\ detection_running' = FALSE
    /\ timer_active' = FALSE
    /\ status_text' = StatusStopped
    /\ status_style' = StyleBlack
    /\ drowsy_detected' = FALSE
    /\ calls' = Count("timer_stop")
    /\ UNCHANGED <<music_playing, timer_interval, cap_opened, pixmap>>
    /\ UNCHANGED pil_image
    /\ UNCHANGED window_visible

\* stop_detection: clear the flag, stop the timer, reset the status, clear
\* drowsy_detected, stop the music.
stop_detection ==
    /\ window_visible
    /\ Record(EvStop)
    /\ detection_running' = FALSE
    /\ timer_active' = FALSE
    /\ status_text' = StatusStopped
    /\ status_style' = StyleBlack
    /\ drowsy_detected' = FALSE
    /\ music_playing' = FALSE
    /\ calls' = [calls EXCEPT !["timer_stop"] = @ + 1,
                              !["music_stop"] = @ + 1]
    /\ UNCHANGED <<timer_interval, cap_opened, pixmap>>
    /\ UNCHANGED pil_image
    /\ UNCHANGED window_visible

\* Variant: update_frame without the detection_running test reads,
\* classifies and sounds the alarm while idle.
TickNotRunningUnguarded ==
    /\ ~detection_running
    /\ Record(EvTickIdle)
    /\ status_text' = StatusDrowsy
    /\ status_style' = StyleRed
    /\ drowsy_detected' = TRUE
    /\ music_playing' = TRUE
    /\ calls' = [calls EXCEPT !["cap_read"] = @ + 1,
                              !["pipe"] = @ + 1,
                              !["music_play"] = @ + 1]
    /\ UNCHANGED <<detection_running, timer_active, timer_interval,
                   cap_opened, pixmap>>
    /\ UNCHANGED pil_image
    /\ UNCHANGED window_visible

\* update_frame, first early return: detection is not running.
TickNotRunning ==
    /\ ~detection_running
    /\ Record(EvTickIdle)
    /\ UNCHANGED <<prog, calls>>
    /\ UNCHANGED pil_image

\* Variant: a failed read is treated as "no drowsiness seen" and clears the
\* alarm and the preview.
TickReadFailedClears ==
    /\ detection_running
    /\ Record(EvTickFail)
    /\ drowsy_detected' = FALSE
    /\ music_playing' = FALSE
    /\ pixmap' = NoPixmap
    /\ calls' = [calls EXCEPT !["cap_read"] = @ + 1,
                              !["music_stop"] = @ + 1]
    /\ UNCHANGED <<detection_running, timer_active, timer_interval,
                   cap_opened, status_text, status_style>>
    /\ UNCHANGED pil_image
    /\ UNCHANGED window_visible

\* update_frame, second early return: cap.read() gave ret = False.  A released
\* capture always does; an open one may.
TickReadFailed ==
    /\ detection_running
    /\ Record(EvTickFail)
    /\ calls' = Count("cap_read")
    /\ UNCHANGED prog
    /\ UNCHANGED pil_image

\* Variant: the drowsy branch without the "if not self.drowsy_detected" test
\* calls play(-1) on every drowsy tick.
TickDrowsyRestarts(frame, label) ==
    /\ detection_running
    /\ cap_opened
    /\ IsDrowsy(label)
    /\ Record(EvTick(label))
    /\ status_text' = StatusDrowsy
    /\ status_style' = StyleRed
    /\ drowsy_detected' = TRUE
    /\ music_playing' = TRUE
    /\ calls' = [calls EXCEPT !["cap_read"] = @ + 1,
                              !["pipe"] = @ + 1,
                              !["music_play"] = @ + 1]
    /\ pixmap' = QImageOf(frame)
    /\ UNCHANGED <<detection_running, timer_active, timer_interval,
                   cap_opened>>
    /\ pil_image' = ClassifierInput[frame]
    /\ UNCHANGED window_visible

\* update_frame with a frame and a drowsy label.
TickDrowsy(frame, label) ==
    /\ detection_running
    /\ cap_opened
    /\ IsDrowsy(label)
    /\ Record(EvTick(label))
    /\ status_text' = StatusDrowsy
    /\ status_style' = StyleRed
    /\ IF ~drowsy_detected
       THEN /\ drowsy_detected' = TRUE
            /\ music_playing' = TRUE
            /\ calls' = [calls EXCEPT !["cap_read"] = @ + 1,
                                      !["pipe"] = @ + 1,
                                      !["music_play"] = @ + 1]
       ELSE /\ UNCHANGED <<drowsy_detected, music_playing>>
            /\ calls' = [calls EXCEPT !["cap_read"] = @ + 1,
                                      !["pipe"] = @ + 1]
    /\ pixmap' = QImageOf(frame)
    /\ UNCHANGED <<detection_running, timer_active, timer_interval,
                   cap_opened>>
    /\ pil_image' = ClassifierInput[frame]
    /\ UNCHANGED window_visible

\* Variant: the awake branch without its music.stop() line.
TickAwakeKeepsMusic(frame, label) ==
    /\ detection_running
    /\ cap_opened
    /\ ~IsDrowsy(label)
    /\ Record(EvTick(label))
    /\ status_text' = StatusAwake
    /\ status_style' = StyleGreen
    /\ drowsy_detected' = FALSE
    /\ calls' = [calls EXCEPT !["cap_read"] = @ + 1,
                              !["pipe"] = @ + 1]
    /\ pixmap' = QImageOf(frame)
    /\ UNCHANGED <<music_playing, detection_running, timer_active,
                   timer_interval, cap_opened>>
    /\ pil_image' = ClassifierInput[frame]
    /\ UNCHANGED window_visible

\* Variant: the awake branch stops the music only when the alarm was on.
TickAwakeStopsOnce(frame, label) ==
    /\ detection_running
    /\ cap_opened
    /\ ~IsDrowsy(label)
    /\ Record(EvTick(label))
    /\ status_text' = StatusAwake
    /\ status_style' = StyleGreen
    /\ drowsy_detected' = FALSE
    /\ music_playing' = FALSE
    /\ calls' = IF drowsy_detected
                THEN [calls EXCEPT !["cap_read"] = @ + 1,
                                   !["pipe"] = @ + 1,
                                   !["music_stop"] = @ + 1]
                ELSE [calls EXCEPT !["cap_read"] = @ + 1,
                                   !["pipe"] = @ + 1]
    /\ pixmap' = QImageOf(frame)
    /\ UNCHANGED <<detection_running, timer_active, timer_interval,
                   cap_opened>>
    /\ pil_image' = ClassifierInput[frame]
    /\ UNCHANGED window_visible

\* update_frame with a frame and any other label.
TickAwake(frame, label) ==
    /\ detection_running
    /\ cap_opened
    /\ ~IsDrowsy(label)
    /\ Record(EvTick(label))
    /\ status_text' = StatusAwake
    /\ status_style' = StyleGreen
    /\ drowsy_detected' = FALSE
    /\ music_playing' = FALSE
    /\ calls' = [calls EXCEPT !["cap_read"] = @ + 1,
                              !["pipe"] = @ + 1,
                              !["music_stop"] = @ + 1]
    /\ pixmap' = QImageOf(frame)
    /\ UNCHANGED <<detection_running, timer_active, timer_interval,
                   cap_opened>>
    /\ pil_image' = ClassifierInput[frame]
    /\ UNCHANGED window_visible

\* Variant: the preview is drawn before the classifier is called.
TickPipeRaisedAfterPreview(frame) ==
    /\ detection_running
    /\ cap_opened
    /\ Record(EvTickRaised)
    /\ calls' = [calls EXCEPT !["cap_read"] = @ + 1,
                              !["pipe"] = @ + 1]
    /\ pil_image' = ClassifierInput[frame]
    /\ pixmap' = QImageOf(frame)
    /\ UNCHANGED <<detection_running, drowsy_detected, timer_active,
                   timer_interval, music_playing, cap_opened, status_text,
                   status_style, window_visible>>

\* update_frame with a frame, when pipe(pil_image) raises or returns an
\* empty list (results[0] then raises): the exception leaves update_frame
\* from line 105 or 106, before the first write to the session.
TickPipeRaised(frame) ==
    /\ detection_running
    /\ cap_opened
    /\ Record(EvTickRaised)
    /\ calls' = [calls EXCEPT !["cap_read"] = @ + 1,
                              !["pipe"] = @ + 1]
    /\ pil_image' = ClassifierInput[frame]
    /\ UNCHANGED prog

update_frame ==
    \/ TickNotRunning
    \/ TickReadFailed
    \/ \E frame \in Frames : TickPipeRaised(frame)
    \/ \E frame \in Frames, label \in Labels : TickDrowsy(frame, label)
    \/ \E frame \in Frames, label \in Labels : TickAwake(frame, label)

\* Variant: closeEvent without its music.stop() line.
CloseKeepsMusic ==
    /\ window_visible
    /\ Record(EvClose)
    /\ cap_opened' = FALSE
    /\ calls' = Count("cap_release")
    /\ UNCHANGED <<music_playing, detection_running, drowsy_detected,
                   timer_active, timer_interval, status_text, status_style,
                   pixmap>>
    /\ UNCHANGED pil_image
    /\ window_visible' = FALSE

\* Variant: closeEvent also clears drowsy_detected.
CloseClearsAlarm ==
    /\ window_visible
    /\ Record(EvClose)
    /\ cap_opened' = FALSE
    /\ music_playing' = FALSE
    /\ drowsy_detected' = FALSE
    /\ calls' = [calls EXCEPT !["cap_release"] = @ + 1,
                              !["music_stop"] = @ + 1]
    /\ UNCHANGED <<detection_running, timer_active, timer_interval,
                   status_text, status_style, pixmap>>
    /\ UNCHANGED pil_image
    /\ window_visible' = FALSE

\* Variant: closeEvent without its cap.release() line.
CloseKeepsCapture ==
    /\ window_visible
    /\ Record(EvClose)
    /\ music_playing' = FALSE
    /\ calls' = Count("music_stop")
    /\ UNCHANGED <<cap_opened, detection_running, drowsy_detected,
                   timer_active, timer_interval, status_text, status_style,
                   pixmap>>
    /\ UNCHANGED pil_image
    /\ window_visible' = FALSE

\* closeEvent: release the capture, stop the music, accept the event.
closeEvent ==
    /\ window_visible
    /\ Record(EvClose)
    /\ cap_opened' = FALSE
    /\ music_playing' = FALSE
    /\ calls' = [calls EXCEPT !["cap_release"] = @ + 1,
                              !["music_stop"] = @ + 1]
    /\ UNCHANGED <<detection_running, drowsy_detected, timer_active,
                   timer_interval, status_text, status_style, pixmap>>
    /\ UNCHANGED pil_image
    /\ window_visible' = FALSE

Next ==
    \/ start_detection
    \/ stop_detection
    \/ update_frame
    \/ closeEvent

Spec == Init /\ [][Next]_vars

TypeOK ==
    /\ detection_running \in BOOLEAN
    /\ drowsy_detected \in BOOLEAN
    /\ timer_active \in BOOLEAN
    /\ timer_interval \in {0, TimerPeriod}
    /\ music_playing \in BOOLEAN
    /\ cap_opened \in BOOLEAN
    /\ status_text \in {StatusPrompt, StatusStopped, StatusDrowsy, StatusAwake}
    /\ status_style \in {StyleNone, StyleBlack, StyleRed, StyleGreen}
    /\ pixmap \in {QImageOf(f) : f \in Frames} \cup {NoPixmap}
    /\ window_visible \in BOOLEAN
    /\ pil_image \in {ClassifierInput[f] : f \in Frames} \cup {NoPixmap}
    /\ nEvents \in 0..MaxEvents
    /\ Len(recent) <= 2
    /\ last_result \in {<< >>} \cup {<< l >> : l \in Labels}
    /\ stop_since \in BOOLEAN

\* ============================================================== properties
\* Helpers for the properties below.
HasLast == Len(recent) > 0
IsOkTick(e) == e.op = "tick" /\ e.read = "ok"

\* The labels section 8 lists as drowsy, and as awake.
ListedDrowsy ==
    { <<"D","r","o","w","s","y">>,
      <<"D","R","O","W","S","Y">>,
      <<"d","r","o","w","s","y">> }
ListedAwake ==
    { <<"A","w","a","k","e">>,
      <<"n","o","t","_","d","r","o","w","s","y">>,
      <<>> }

IsDrowsyTick(e) == IsOkTick(e) /\ e.label \in ListedDrowsy

\* C1: in every reachable state the alarm is playing if and only if
\* drowsy_detected is true.  (Stated as claimed; closeEvent stops the music
\* and leaves drowsy_detected as it was.)
C1_PlayingIffAlarmActive == music_playing <=> drowsy_detected

\* C2: a drowsy tick calls play exactly when drowsy_detected was false
\* before it, a drowsy tick that directly follows a drowsy tick never calls
\* play, and the scenario start, drowsy, drowsy, awake, drowsy, stop makes
\* play calls at ticks 1 and 4 only and stop calls at tick 3 and at the stop
\* command only.
C2_PlayAfterPrefix == <<0, 1, 1, 1, 2, 2>>
C2_StopAfterPrefix == <<0, 0, 0, 1, 1, 2>>
C2_StickyStep ==
    IsDrowsyTick(Last(recent')) =>
        /\ calls'.music_play
             = calls.music_play + (IF drowsy_detected THEN 0 ELSE 1)
        /\ calls'.music_stop = calls.music_stop
        /\ (HasLast /\ IsDrowsyTick(Last(recent)))
             => calls'.music_play = calls.music_play
C2_ScenarioCounts ==
    \A k \in 1..Len(ScenarioSticky) :
        script = SubSeq(ScenarioSticky, 1, k) =>
            /\ calls.music_play = C2_PlayAfterPrefix[k]
            /\ calls.music_stop = C2_StopAfterPrefix[k]
C2_StickyAlarm == [][C2_StickyStep]_vars /\ []C2_ScenarioCounts
C2_Witness ==
    /\ script = ScenarioSticky
    /\ calls.music_play = 2

\* C3: right after a tick whose read succeeded, the status, drowsy_detected
\* and the music follow that tick's lowered label; and the scenario start,
\* "Drowsy", "Awake", stop ends with the timer stopped, the status
\* "Stopped" and the music stopped.
C3_TickReflectsLabel ==
    /\ (HasLast /\ IsOkTick(Last(recent))) =>
          IF Lower(Last(recent).label) = <<"d","r","o","w","s","y">>
          THEN /\ status_text = StatusDrowsy
               /\ drowsy_detected
               /\ music_playing
          ELSE /\ status_text = StatusAwake
               /\ ~drowsy_detected
               /\ ~music_playing
    /\ script = ScenarioSession =>
          /\ ~timer_active
          /\ status_text = StatusStopped
          /\ ~music_playing
    /\ script = SubSeq(ScenarioSession, 1, 2) =>
          status_text = StatusDrowsy /\ music_playing
    /\ script = SubSeq(ScenarioSession, 1, 3) =>
          status_text = StatusAwake /\ ~music_playing
C3_Witness ==
    /\ script = ScenarioSession
    /\ calls.music_play = 1
    /\ calls.music_stop = 2

\* C4: right after a stop command, whatever the state before it, detection
\* is not running, the timer is stopped, drowsy_detected is false, the
\* music is stopped and the status is "Stopped"; a stop that directly
\* follows a stop changes none of the session's state.
C4_AfterStop ==
    (HasLast /\ Last(recent) = EvStop) =>
        /\ ~detection_running
        /\ ~timer_active
        /\ ~drowsy_detected
        /\ ~music_playing
        /\ status_text = StatusStopped
C4_SecondStopStep ==
    (HasLast /\ Last(recent) = EvStop /\ Last(recent') = EvStop)
        => prog' = prog
C4_StopIdempotent == []C4_AfterStop /\ [][C4_SecondStopStep]_vars
C4_Witness ==
    /\ recent = <<EvStop, EvStop>>
    /\ calls.music_play > 0
    /\ calls.music_stop = 2

\* C5: right after a window close, whatever the state before it, the music
\* is stopped and the capture is released.
C5_ShutdownGuarantee ==
    (HasLast /\ Last(recent) = EvClose) =>
        /\ ~music_playing
        /\ ~cap_opened
C5_Witness ==
    /\ Len(recent) = 2
    /\ IsDrowsyTick(recent[1])
    /\ recent[2] = EvClose
    /\ drowsy_detected
    /\ ~music_playing
    /\ ~cap_opened

\* C6: right after a window close the timer is stopped, detection is not
\* running and drowsy_detected is false, as after a stop command.  (Stated
\* as claimed; closeEvent touches none of the three.)
C6_CloseEndsIdle ==
    (HasLast /\ Last(recent) = EvClose) =>
        /\ ~timer_active
        /\ ~detection_running
        /\ ~drowsy_detected

\* C7: a tick whose read fails changes none of the session's state
\* (drowsy_detected, music, status, preview, running, timer) and calls
\* neither play nor stop nor the classifier, however many such ticks follow
\* one another.
C7_FailedReadStep ==
    Last(recent') = EvTickFail =>
        /\ prog' = prog
        /\ calls'.music_play = calls.music_play
        /\ calls'.music_stop = calls.music_stop
        /\ calls'.pipe = calls.pipe
C7_DroppedFrame == [][C7_FailedReadStep]_vars
C7_Witness ==
    /\ recent = <<EvTickFail, EvTickFail>>
    /\ cap_opened
    /\ drowsy_detected
    /\ music_playing
    /\ pixmap # NoPixmap

\* C8: a start command while detection is running changes nothing and does
\* not call the timer's start; the timer's start is called only by a start
\* command that takes detection from not running to running; after a start
\* command the one timer is active with a period of 30 ms.
C8_StartStep ==
    /\ (Last(recent') = EvStart /\ detection_running) =>
          prog' = prog /\ calls' = calls
    /\ calls'.timer_start # calls.timer_start =>
          /\ Last(recent') = EvStart
          /\ ~detection_running
          /\ detection_running'
          /\ calls'.timer_start = calls.timer_start + 1
C8_AfterStart ==
    (HasLast /\ Last(recent) = EvStart) =>
        /\ detection_running
        /\ timer_active
        /\ timer_interval = 30
C8_StartIdempotent == [][C8_StartStep]_vars /\ []C8_AfterStart
C8_Witness ==
    /\ recent = <<EvStart, EvStart>>
    /\ calls.timer_start = 1
    /\ timer_active

\* C9: whenever detection is not running, the timer is stopped, the music
\* is not playing, drowsy_detected is false and the status is the initial
\* prompt or "Stopped"; a tick delivered then reads no frame, calls no
\* classifier and changes nothing; play is only ever called while detection
\* is running.
C9_IdleState ==
    ~detection_running =>
        /\ ~timer_active
        /\ ~music_playing
        /\ ~drowsy_detected
        /\ status_text \in {StatusPrompt, StatusStopped}
C9_IdleTickStep ==
    /\ (Last(recent').op = "tick" /\ ~detection_running) =>
          prog' = prog /\ calls' = calls
    /\ calls'.music_play # calls.music_play => detection_running
C9_IdleInvariant == []C9_IdleState /\ [][C9_IdleTickStep]_vars
C9_Witness ==
    /\ recent = <<EvStop, EvTickIdle>>
    /\ calls.music_play > 0
    /\ ~detection_running
    /\ status_text = StatusStopped

\* C10: a tick whose read succeeded takes the drowsy branch (shows the
\* drowsy status) exactly when its label is "Drowsy", "DROWSY" or "drowsy",
\* and the awake branch for every other label, among them "Awake",
\* "not_drowsy" and the empty label.
C10_CaseInsensitive ==
    (HasLast /\ IsOkTick(Last(recent))) =>
        /\ status_text = StatusDrowsy <=> Last(recent).label \in ListedDrowsy
        /\ status_text = StatusAwake <=> Last(recent).label \notin ListedDrowsy
        /\ Last(recent).label \in ListedAwake => status_text = StatusAwake
C10_Witness ==
    /\ Len(recent) = 2
    /\ recent[1] = EvTick(<<>>)
    /\ recent[2] = EvTick(<<"D","R","O","W","S","Y">>)
    /\ status_text = StatusDrowsy

\* Two labels fall in the same class: both drowsy or both not.
SameClass(a, b) == (a \in ListedDrowsy) <=> (b \in ListedDrowsy)
RepeatsClass(e) ==
    /\ IsOkTick(e)
    /\ last_result # << >>
    /\ SameClass(e.label, last_result[1])

\* C11 (as claimed): on a tick whose classification equals that of the
\* previous classified tick, neither play nor stop is called and the alarm
\* state does not change.  (The awake branch calls music.stop() on every
\* tick.)
C11_NoRedundantCallsStep ==
    RepeatsClass(Last(recent')) =>
        /\ calls'.music_play = calls.music_play
        /\ calls'.music_stop = calls.music_stop
        /\ drowsy_detected' = drowsy_detected
        /\ music_playing' = music_playing
C11_NoRedundantCalls == [][C11_NoRedundantCallsStep]_vars

\* C11 (amended): on a tick whose classification equals that of the
\* previous classified tick, with no stop command between the two, play is
\* not called and the alarm state does not change; stop is called on every
\* non-drowsy tick, repeated or not, and on no drowsy tick.
C11_AmendedStep ==
    /\ (RepeatsClass(Last(recent')) /\ ~stop_since) =>
          /\ calls'.music_play = calls.music_play
          /\ drowsy_detected' = drowsy_detected
          /\ music_playing' = music_playing
    /\ (IsOkTick(Last(recent')) /\ Last(recent').label \notin ListedDrowsy) =>
          calls'.music_stop = calls.music_stop + 1
    /\ IsDrowsyTick(Last(recent')) =>
          calls'.music_stop = calls.music_stop
C11_StopEveryAwakeTick == [][C11_AmendedStep]_vars
C11_Witness ==
    /\ Len(recent) = 2
    /\ IsOkTick(recent[1]) /\ recent[1].label \notin ListedDrowsy
    /\ IsOkTick(recent[2]) /\ recent[2].label \notin ListedDrowsy
    /\ calls.music_stop = 2
    /\ calls.music_play = 0

\* C12: drowsy_detected is true only if the latest classified tick was
\* drowsy and no stop command came after it; once true it stays true across
\* drowsy ticks, failed-read ticks and start commands, and it becomes false
\* only by a non-drowsy classification or a stop command.
C12_OnlyAfterDrowsy ==
    drowsy_detected =>
        /\ last_result # << >>
        /\ last_result[1] \in ListedDrowsy
        /\ ~stop_since
C12_KeepStep ==
    /\ (drowsy_detected /\ (\/ IsDrowsyTick(Last(recent'))
                            \/ Last(recent') = EvTickFail
                            \/ Last(recent') = EvStart))
          => drowsy_detected'
    /\ (drowsy_detected /\ ~drowsy_detected') =>
          \/ Last(recent') = EvStop
          \/ /\ IsOkTick(Last(recent'))
             /\ Last(recent').label \notin ListedDrowsy
C12_AlarmActiveLifetime == []C12_OnlyAfterDrowsy /\ [][C12_KeepStep]_vars
C12_Witness ==
    /\ recent = <<EvTickFail, EvStart>>
    /\ drowsy_detected
    /\ music_playing

\* C14 (as claimed): after a tick whose read succeeded, the preview is the
\* frame at its own size in the channel order of the classifier's input,
\* so the classifier's input is the preview resized.  (The QImage is built
\* from the frame as read, not from the converted frame.)
C14_PreviewInClassifierOrder ==
    (HasLast /\ IsOkTick(Last(recent))) =>
        /\ Len(pixmap) \in {Len(f) : f \in Frames}
        /\ pil_image = Resize(pixmap, ModelSize)

\* C15: after the window is closed no event calls play or changes the
\* status: closeEvent leaves the timer and detection_running as they are,
\* and every later tick either returns at once or reads the released
\* capture, fails and changes nothing, so the music stays stopped.
C15_CloseStep ==
    Last(recent') = EvClose =>
        /\ timer_active' = timer_active
        /\ detection_running' = detection_running
C15_AfterCloseStep ==
    ~window_visible =>
        /\ Last(recent') \in {EvTickFail, EvTickIdle}
        /\ prog' = prog
        /\ calls'.music_play = calls.music_play
        /\ calls'.pipe = calls.pipe
C15_AfterCloseState ==
    ~window_visible => ~music_playing /\ ~cap_opened
C15_QuietAfterClose ==
    /\ [][C15_CloseStep]_vars
    /\ [][C15_AfterCloseStep]_vars
    /\ []C15_AfterCloseState
C15_Witness ==
    /\ recent = <<EvClose, EvTickFail>>
    /\ detection_running
    /\ timer_active
    /\ drowsy_detected
    /\ status_text = StatusDrowsy
    /\ ~music_playing

\* C16: a tick whose classifier call raises, or returns no result, changes
\* none of the session's state (drowsy_detected, music, status, preview,
\* running, timer) and calls neither play nor stop.
C16_RaisedStep ==
    Last(recent') = EvTickRaised =>
        /\ prog' = prog
        /\ calls'.music_play = calls.music_play
        /\ calls'.music_stop = calls.music_stop
        /\ calls'.pipe = calls.pipe + 1
C16_ClassifierRaises == [][C16_RaisedStep]_vars
C16_Witness ==
    /\ Len(recent) = 2
    /\ IsDrowsyTick(recent[1])
    /\ recent[2] = EvTickRaised
    /\ drowsy_detected
    /\ music_playing
    /\ status_text = StatusDrowsy
    /\ calls.pipe = 2

====
